---- MODULE Spec2Model ----
(***************************************************************************)
(* State-machine model of the heart-rate-profile GATT server (hrp.c,       *)
(* hrp.h, main.c).  The D-Bus object tree built by create_services_one is   *)
(* the state; every D-Bus method / property handler of the characteristic  *)
(* and descriptor interfaces is one action.                                *)
(***************************************************************************)
EXTENDS Integers, Sequences, FiniteSets, TLC

VARIABLES
    pc,            \* position of main(): create_services_one steps, then the main loop
    svc_id,        \* register_service: static int id
    chr_id,        \* register_characteristic: static int id (shared by chr and desc paths)
    svcs,          \* registered GattService1 interfaces: path -> uuid (user_data)
    chrs,          \* registered GattCharacteristic1 interfaces: path -> struct characteristic
    descs,         \* registered GattDescriptor1 interfaces: path -> struct descriptor
    services,      \* the global GSList *services
    unregistered,  \* history: service paths handed to g_dbus_unregister_interface
    lastReg,       \* history: the last register_characteristic call
    nreq,          \* number of requests the main loop has dispatched
    last,          \* history: the last request, its reply, sink calls and emissions
    subscribed,    \* history: characteristics on which StartNotify was answered with success
    handed,        \* the reply of a read as its caller holds it (SpecSnapshot)
    writing,       \* the chr_write / desc_write call that has begun and not returned (SpecSteps)
    assigned       \* history: the object paths built by g_strdup_printf, in order

vars == <<pc, svc_id, chr_id, svcs, chrs, descs, services, unregistered,
          lastReg, nreq, last, subscribed, handed, writing, assigned>>

(****************************** bounds *************************************)
MaxLen == 2      \* longest byte array a client sends
MaxReq == 2      \* requests dispatched by the main loop
MaxEntries == 2  \* most entries of an option dictionary (SpecOptions)
MaxPaths == 3    \* registration calls are made while fewer paths were built (SpecRegister)

(**************************** C-level values *******************************)
EINVAL == 22

\* A uint8_t* : either the null pointer or a pointer to a buffer.
NULL == [null |-> TRUE, buf |-> <<>>]
Buf(b) == [null |-> FALSE, buf |-> b]

NoConnection == "NULL"
Connection == "conn"

\* The bytes a client sends: the code treats every byte alike except that
\* callback stops at a 0 byte, so one NUL and one non-NUL byte are drawn.
ClientBytes == {0, 1}
ByteSeqs == UNION {[1..n -> ClientBytes] : n \in 0..MaxLen}

EmptyFn == [x \in {} |-> x]
Remove(f, p) == [q \in DOMAIN f \ {p} |-> f[q]]
Put(f, p, v) == [q \in DOMAIN f \cup {p} |-> IF q = p THEN v ELSE f[q]]

(******************************* hrp.h *************************************)
GATT_SERVICE_IFACE == "org.bluez.GattService1"
GATT_CHR_IFACE == "org.bluez.GattCharacteristic1"
GATT_DESCRIPTOR_IFACE == "org.bluez.GattDescriptor1"

HRP_UUID == "180d"
HR_MSRMT_CHR_UUID == "2a37"
BODY_SENSOR_LOC_CHR_UUID == "2a38"
HR_CTRL_PT_CHR_UUID == "2a39"
CLIENT_CHR_CONFIG_DESCRIPTOR_UUID == "2902"
NoUuid == "NULL"

hrs_hr_msrmt_props == <<"notify">>
hrs_body_sensor_loc_props == <<"read">>
hrs_hr_ctrl_pt_props == <<"write">>
ccc_desc_props == <<"read", "write">>

HasFlag(props, f) == \E i \in 1..Len(props) : props[i] = f

(******************************* main.c ************************************)
\* util_memdup: NULL for a null source or a zero size, else a fresh copy of
\* the first `size` bytes.
util_memdup_null(src, size) == NULL

util_memdup(src, size) ==
    IF src.null \/ size = 0 THEN NULL ELSE Buf(SubSeq(src.buf, 1, size))

\* callback: printf("%s\n", data).  Defined only when data points at a
\* NUL-terminated string inside the buffer; a null pointer or a buffer with
\* no 0 byte is read out of bounds, which the build may survive or not.
callback_defined(data) ==
    /\ ~data.null
    /\ \E i \in 1..Len(data.buf) : data.buf[i] = 0

callback(data) ==
    IF callback_defined(data) THEN {"returns"} ELSE {"returns", "crash"}

(************************* D-Bus message arguments *************************)
\* One argument of a message as the iterator sees it: its D-Bus signature,
\* the bytes of a byte array, the entries of an a{sv} dictionary.
ValueArg(t, b) == [type |-> t, bytes |-> b, entries |-> <<>>]
OptionsArg(e) == [type |-> "a{sv}", bytes |-> <<>>, entries |-> e]
Entry(k, t) == [key |-> k, vtype |-> t]

IsArray(t) == t \in {"ay", "a{sv}"}

\* Payloads a client may put in the value position.  Method calls are
\* dispatched only when the signature is "ay"; a property Set carries a
\* variant of any type.
ByteArrays == {ValueArg("ay", b) : b \in ByteSeqs}
NonArray == ValueArg("s", <<>>)
OptionBags == { <<>>,
                <<Entry("mtu", "q"), Entry("device", "o")>>,
                <<Entry("device", "s")>> }

\* Every option dictionary of up to MaxEntries entries over keys that are,
\* and are not, "device" in some letter case, and over the object-path type
\* and two other value types.
OptionKeys == {"device", "Device", "mtu"}
OptionTypes == {"o", "s", "q"}
OptionEntries == {Entry(k, t) : k \in OptionKeys, t \in OptionTypes}
AllOptionBags == UNION {[1..n -> OptionEntries] : n \in 0..MaxEntries}

\* A request's option bag together with whether building its reply
\* (dbus_message_new_method_return) runs out of memory.  The write handlers
\* never look into the bag, so one well-formed and one ill-formed bag are drawn.
ReadRequests ==
    {[opts |-> e, oom |-> FALSE] : e \in OptionBags} \cup {[opts |-> <<>>, oom |-> TRUE]}
WriteRequests ==
    {[opts |-> e, oom |-> FALSE] : e \in {<<>>, <<Entry("device", "s")>>}}
    \cup {[opts |-> <<>>, oom |-> TRUE]}

\* What an uninitialised (value, len) pair may hold when it is used: a null
\* pointer with any length, or a pointer to readable bytes.
Garbage ==
    {[value |-> NULL, len |-> l] : l \in 0..MaxLen}
    \cup {[value |-> Buf(<<b>>), len |-> 1] : b \in ClientBytes}

(******************************** hrp.c ************************************)
\* parse_value: -EINVAL unless the argument is an array; otherwise the
\* fixed array and its length (init = FALSE: *value and *len were not set).
parse_value_rejects(arg) ==
    [rc |-> -EINVAL, value |-> NULL, len |-> 0, init |-> FALSE]

parse_value(arg) ==
    IF ~IsArray(arg.type)
    THEN [rc |-> -EINVAL, value |-> NULL, len |-> 0, init |-> FALSE]
    ELSE [rc |-> 0,
          value |-> IF arg.bytes = <<>> THEN NULL ELSE Buf(arg.bytes),
          len |-> Len(arg.bytes), init |-> TRUE]

\* strcasecmp(key, "device") == 0
strcasecmp_device(key) == key \in {"device", "Device", "DEVICE"}

\* The while loop of parse_options over the dictionary entries.
parse_options_loop_first(entries) ==
    IF entries = <<>> THEN 0
    ELSE IF strcasecmp_device(Head(entries).key) /\ Head(entries).vtype # "o"
         THEN -EINVAL
         ELSE 0

RECURSIVE parse_options_loop(_)
parse_options_loop(entries) ==
    IF entries = <<>> THEN 0
    ELSE IF strcasecmp_device(Head(entries).key) /\ Head(entries).vtype # "o"
         THEN -EINVAL
         ELSE parse_options_loop(Tail(entries))

\* parse_options: -EINVAL unless the argument is an array; the entries of
\* an array whose elements are not dictionary entries are never visited.
parse_options(arg) ==
    IF ~IsArray(arg.type) THEN -EINVAL
    ELSE parse_options_loop(IF arg.type = "a{sv}" THEN arg.entries ELSE <<>>)

\* chr_read: vlen bytes starting at chr->value, appended to the reply.
chr_read_drops_last(chr) ==
    IF chr.vlen = 0 \/ chr.value.null THEN <<>>
    ELSE SubSeq(chr.value.buf, 1, chr.vlen - 1)

chr_read(chr) ==
    IF chr.vlen = 0 \/ chr.value.null THEN <<>>
    ELSE SubSeq(chr.value.buf, 1, chr.vlen)

\* desc_read: the same, guarded by  desc->vlen && desc->value.
desc_read(desc) ==
    IF desc.vlen # 0 /\ ~desc.value.null
    THEN SubSeq(desc.value.buf, 1, desc.vlen)
    ELSE <<>>

\* chr_write / desc_write, the stores: free the old buffer, duplicate the
\* new one, set the length.
chr_write(chr, value, len) ==
    [chr EXCEPT !.value = util_memdup(value, len), !.vlen = len]

desc_write_keeps_tail(desc, value, len) ==
    [desc EXCEPT !.value =
                    IF desc.value.null \/ value.null \/ len >= Len(desc.value.buf)
                    THEN util_memdup(value, len)
                    ELSE Buf(SubSeq(value.buf, 1, len)
                             \o SubSeq(desc.value.buf, len + 1, Len(desc.value.buf))),
                 !.vlen = IF desc.value.null \/ value.null \/ len >= Len(desc.value.buf)
                          THEN len ELSE Len(desc.value.buf)]

desc_write(desc, value, len) ==
    [desc EXCEPT !.value = util_memdup(value, len), !.vlen = len]

\* g_dbus_emit_property_changed(connection, path, iface, "Value") as called
\* by chr_write / desc_write.
Emission(conn, path, iface) ==
    [conn |-> conn, path |-> path, iface |-> iface, name |-> "Value"]

\* callback(value, vlen) as called by chr_write / desc_write.
SinkCall(data, size) == [data |-> data, size |-> size]

\* The emission that ends chr_write: one PropertiesChanged("Value") on the
\* characteristic's own path.
chr_emit_none(conn, chr) == <<>>

chr_emit(conn, chr) == <<Emission(conn, chr.path, GATT_CHR_IFACE)>>

\* The emission that ends desc_write.
desc_emit(conn, desc) == <<Emission(conn, desc.path, GATT_DESCRIPTOR_IFACE)>>

(***************************** registration ********************************)
\* The three register_characteristic calls of create_services_one.
Level == <<0>>

ChrSpec(k) ==
    CASE k = 1 -> [uuid |-> HR_MSRMT_CHR_UUID, value |-> Buf(Level), vlen |-> Len(Level),
                   props |-> hrs_hr_msrmt_props,
                   desc_uuid |-> CLIENT_CHR_CONFIG_DESCRIPTOR_UUID,
                   desc_props |-> ccc_desc_props]
      [] k = 2 -> [uuid |-> BODY_SENSOR_LOC_CHR_UUID, value |-> Buf(Level), vlen |-> Len(Level),
                   props |-> hrs_body_sensor_loc_props,
                   desc_uuid |-> NoUuid, desc_props |-> <<>>]
      [] k = 3 -> [uuid |-> HR_CTRL_PT_CHR_UUID, value |-> Buf(Level), vlen |-> Len(Level),
                   props |-> hrs_hr_ctrl_pt_props,
                   desc_uuid |-> NoUuid, desc_props |-> <<>>]

Calls == {1, 2, 3}
PcOf(k) == CASE k = 1 -> "chr1" [] k = 2 -> "chr2" [] k = 3 -> "chr3" [] OTHER -> "done"

\* Object paths: <<n>> is /service<n>, <<n, m>> is /service<n>/characteristic<m>,
\* <<n, m, k>> is /service<n>/characteristic<m>/descriptor<k>.
ServicePath(n) == <<n>>
ChrPath(service_path, m) == service_path \o <<m>>
DescPath(chr_path, k) == chr_path \o <<k>>

\* The registry as register_characteristic sees it.
Registry == [chrs |-> chrs, descs |-> descs, id |-> chr_id]
Attributes(s, c, d) == DOMAIN s \cup DOMAIN c \cup DOMAIN d

\* g_dbus_unregister_interface(connection, chr->path, GATT_CHR_IFACE) in the
\* descriptor-failure branch: the interface goes and chr_iface_destroy runs.
unregister_chr_skipped(R, chr_path) == R

unregister_chr(R, chr_path) == [R EXCEPT !.chrs = Remove(R.chrs, chr_path)]

\* chr_iface_destroy(chr) in the branch where the characteristic's own
\* g_dbus_register_interface failed: the object was never registered, it is
\* freed and the registry stays as it was.
chr_iface_destroy_leaks(R, chr) == [R EXCEPT !.chrs = Put(R.chrs, chr.path, chr)]

chr_iface_destroy(R, chr) == R

\* id++ on the static counter of register_characteristic / register_service.
next_id_stuck(id) == id

next_id_skips(id) == id + 2

next_id(id) == id + 1

\* register_characteristic.  chrOk / descOk are the results of the two
\* g_dbus_register_interface calls.
register_characteristic(R, spec, service_path, chrOk, descOk) ==
    LET chr_path == ChrPath(service_path, R.id)
        chr == [service |-> service_path, uuid |-> spec.uuid, path |-> chr_path,
                value |-> util_memdup(spec.value, spec.vlen), vlen |-> spec.vlen,
                props |-> spec.props]
        R1 == [R EXCEPT !.id = next_id(R.id)]
    IN  IF ~chrOk
        THEN [reg |-> chr_iface_destroy(R1, chr), ok |-> FALSE, failed |-> "chr",
              paths |-> <<chr_path>>]
        ELSE LET R2 == [R1 EXCEPT !.chrs = Put(R1.chrs, chr_path, chr)]
             IN  IF spec.desc_uuid = NoUuid
                 THEN [reg |-> R2, ok |-> TRUE, failed |-> "none", paths |-> <<chr_path>>]
                 ELSE LET desc_path == DescPath(chr_path, R2.id)
                          desc == [chr |-> chr_path, uuid |-> spec.desc_uuid,
                                   path |-> desc_path, value |-> NULL, vlen |-> 0,
                                   props |-> spec.desc_props]
                          R3 == [R2 EXCEPT !.id = next_id(R2.id)]
                      IN  IF ~descOk
                          THEN [reg |-> unregister_chr(R3, chr_path),
                                ok |-> FALSE, failed |-> "desc",
                                paths |-> <<chr_path, desc_path>>]
                          ELSE [reg |-> [R3 EXCEPT !.descs = Put(R3.descs, desc_path, desc)],
                                ok |-> TRUE, failed |-> "none",
                                paths |-> <<chr_path, desc_path>>]

\* register_service: a fresh /service<id>, or NULL (ok = FALSE).
register_service(ok) ==
    [path |-> ServicePath(svc_id), id |-> next_id(svc_id), ok |-> ok]

NoRequest ==
    [op |-> "none", path |-> <<>>, arg |-> ValueArg("none", <<>>), opts |-> <<>>,
     reply |-> [kind |-> "none", name |-> "", bytes |-> <<>>],
     sink |-> <<>>, events |-> <<>>, shrunk |-> FALSE]

\* The array of a read's reply: dbus_message_iter_append_fixed_array copies
\* the bytes into the message (a borrowed array would show the attribute's
\* storage as it is when looked at).
reply_array_borrowed(path, bytes) == [copy |-> FALSE, path |-> path, bytes |-> <<>>]

reply_array(path, bytes) == [copy |-> TRUE, path |-> path, bytes |-> bytes]

NoRead == [array |-> reply_array(<<>>, <<>>), at |-> <<>>, held |-> FALSE]

\* No chr_write / desc_write call is under way.
NoWrite == [path |-> <<>>, at |-> "none", arg |-> ValueArg("none", <<>>)]

NoRegistration ==
    [call |-> 0, service |-> <<>>, ok |-> TRUE, failed |-> "none", before |-> {}, after |-> {}]

Init ==
    /\ pc = "start"
    /\ svc_id = 1
    /\ chr_id = 1
    /\ svcs = EmptyFn
    /\ chrs = EmptyFn
    /\ descs = EmptyFn
    /\ services = <<>>
    /\ unregistered = {}
    /\ lastReg = NoRegistration
    /\ nreq = 0
    /\ last = NoRequest
    /\ subscribed = {}
    /\ handed = NoRead
    /\ writing = NoWrite
    /\ assigned = <<>>

\* g_dbus_unregister_interface(connection, service_path, GATT_SERVICE_IFACE)
\* in the failure branches of create_services_one.
unregister_service_skipped(S, service_path) == S

unregister_service(S, service_path) == Remove(S, service_path)

\* create_services_one, first step: register_service(connection, HRP_UUID);
\* return when it yields no path.
CreateRegisterService ==
    /\ pc = "start"
    /\ \E ok \in BOOLEAN :
         LET r == register_service(ok)
         IN  /\ svc_id' = r.id
             /\ svcs' = IF r.ok THEN Put(svcs, r.path, HRP_UUID) ELSE svcs
             /\ pc' = IF r.ok THEN PcOf(1) ELSE "running"
             /\ assigned' = Append(assigned, r.path)
    /\ UNCHANGED <<chr_id, chrs, descs, services, unregistered, lastReg, nreq, last,
                   subscribed, handed, writing>>

\* create_services_one, the k-th register_characteristic call with its
\* failure branch (unregister the service interface, return) and, after the
\* third call, the g_slist_prepend.
CreateRegisterCharacteristic(k) ==
    /\ pc = PcOf(k)
    /\ \E chrOk \in BOOLEAN, descOk \in BOOLEAN :
         LET service_path == ServicePath(svc_id - 1)
             r == register_characteristic(Registry, ChrSpec(k), service_path, chrOk, descOk)
         IN  /\ chrs' = r.reg.chrs
             /\ descs' = r.reg.descs
             /\ chr_id' = r.reg.id
             /\ assigned' = assigned \o r.paths
             /\ lastReg' = [call |-> k, service |-> service_path, ok |-> r.ok,
                            failed |-> r.failed,
                            before |-> Attributes(svcs, chrs, descs),
                            after |-> Attributes(svcs, r.reg.chrs, r.reg.descs)]
             /\ IF r.ok
                THEN /\ svcs' = svcs
                     /\ unregistered' = unregistered
                     /\ services' = IF k = 3 THEN <<service_path>> \o services ELSE services
                     /\ pc' = IF k = 3 THEN "running" ELSE PcOf(k + 1)
                ELSE /\ svcs' = unregister_service(svcs, service_path)
                     /\ unregistered' = unregistered \cup {service_path}
                     /\ services' = services
                     /\ pc' = "running"
    /\ UNCHANGED <<svc_id, nreq, last, subscribed, handed, writing>>

\* register_service called on its own, any number of times.
RegisterService(ok) ==
    /\ Len(assigned) < MaxPaths
    /\ LET r == register_service(ok)
       IN  /\ svc_id' = r.id
           /\ svcs' = IF r.ok THEN Put(svcs, r.path, HRP_UUID) ELSE svcs
           /\ assigned' = Append(assigned, r.path)
    /\ UNCHANGED <<pc, chr_id, chrs, descs, services, unregistered, lastReg, nreq, last,
                   subscribed, handed, writing>>

\* register_characteristic called on its own with any service path, with the
\* arguments of the k-th call of create_services_one otherwise.
RegisterCharacteristic(k, service_path, chrOk, descOk) ==
    /\ Len(assigned) < MaxPaths
    /\ LET r == register_characteristic(Registry, ChrSpec(k), service_path, chrOk, descOk)
       IN  /\ chrs' = r.reg.chrs
           /\ descs' = r.reg.descs
           /\ chr_id' = r.reg.id
           /\ assigned' = assigned \o r.paths
           /\ lastReg' = [call |-> k, service |-> service_path, ok |-> r.ok,
                          failed |-> r.failed,
                          before |-> Attributes(svcs, chrs, descs),
                          after |-> Attributes(svcs, r.reg.chrs, r.reg.descs)]
    /\ UNCHANGED <<pc, svc_id, svcs, services, unregistered, nreq, last, subscribed,
                   handed, writing>>

(***************************** request handlers ****************************)
DBUS_ERROR_INVALID_ARGS == "org.freedesktop.DBus.Error.InvalidArgs"
DBUS_ERROR_NO_MEMORY == "org.freedesktop.DBus.Error.NoMemory"
DBUS_ERROR_NOT_SUPPORTED == "org.freedesktop.DBus.Error.NotSupported"
CHR_SET_INVALID == "ERROR_INTERFACE.InvalidArguments"
DESC_SET_INVALID == "error.InvalidArguments"

Return(b) == [kind |-> "return", name |-> "", bytes |-> b]
Error(n) == [kind |-> "error", name |-> n, bytes |-> <<>>]
NoReply == [kind |-> "none", name |-> "", bytes |-> <<>>]

\* uint8_t notification[] = {0x33, 0x34, 0x35} of send_notification.
notification == <<51, 52, 53>>

\* The main loop dispatches one request at a time; a handler runs to its end.
Running == pc = "running"

\* A write request that carried a byte array and was answered with success.
ByteWrite(op, arg, reply) ==
    op \in {"WriteValue", "Set"} /\ arg.type = "ay" /\ reply.kind = "return"

\* What a handler leaves behind: the reply, the callback invocations and the
\* g_dbus_emit_property_changed calls it made (shrunk: this request and the one
\* before it were successful byte-array writes to the same attribute, this one
\* the shorter).
Finish(op, p, arg, opts, reply, sink, events, crashed) ==
    /\ last' = [op |-> op, path |-> p, arg |-> arg, opts |-> opts, reply |-> reply,
                sink |-> sink, events |-> events,
                shrunk |-> /\ ByteWrite(op, arg, reply)
                           /\ ByteWrite(last.op, last.arg, last.reply)
                           /\ last.path = p
                           /\ Len(arg.bytes) < Len(last.arg.bytes)]
    /\ nreq' = nreq + 1
    /\ pc' = IF crashed THEN "crashed" ELSE pc
    /\ writing' = NoWrite
    /\ UNCHANGED <<svc_id, chr_id, svcs, services, unregistered, lastReg, assigned, handed>>

\* chr_write(connection, chr, value, len) run to its end: the store, then
\* callback, then the emission (not reached when callback does not return).
ChrWriteRun_sink_first(conn, chr, value, len) ==
    LET new == chr_write(chr, value, len)
    IN  {[attr |-> new,
          sink |-> <<SinkCall(chr.value, chr.vlen)>>,
          events |-> IF o = "returns" THEN chr_emit(conn, chr) ELSE <<>>,
          crashed |-> o = "crash"] : o \in callback(chr.value)}

ChrWriteRun(conn, chr, value, len) ==
    LET new == chr_write(chr, value, len)
    IN  {[attr |-> new,
          sink |-> <<SinkCall(new.value, new.vlen)>>,
          events |-> IF o = "returns" THEN chr_emit(conn, chr) ELSE <<>>,
          crashed |-> o = "crash"] : o \in callback(new.value)}

DescWriteRun(conn, desc, value, len) ==
    LET new == desc_write(desc, value, len)
    IN  {[attr |-> new,
          sink |-> <<SinkCall(new.value, new.vlen)>>,
          events |-> IF o = "returns" THEN desc_emit(conn, desc) ELSE <<>>,
          crashed |-> o = "crash"] : o \in callback(new.value)}

\* chr_read_value: ReadValue(options) on a characteristic.
chr_read_value_reply(chr, args, oom) ==
    IF parse_options(args[1]) # 0 THEN Error(DBUS_ERROR_INVALID_ARGS)
    ELSE IF oom THEN Error(DBUS_ERROR_NO_MEMORY)
    ELSE Return(chr_read(chr))

ChrReadValue(p, e, oom) ==
    /\ Running
    /\ p \in DOMAIN chrs
    /\ Finish("ReadValue", p, ValueArg("none", <<>>), e, chr_read_value_reply(chrs[p], <<OptionsArg(e)>>, oom), <<>>, <<>>, FALSE)
    /\ UNCHANGED <<chrs, descs, subscribed>>

\* chr_write_value: WriteValue(value, options) on a characteristic.  Both
\* parse_value and parse_options read the argument the iterator stands on,
\* which is never advanced past the value.
ChrWriteValue(p, a, e, oom) ==
    /\ Running
    /\ p \in DOMAIN chrs
    /\ LET args == <<a, OptionsArg(e)>>
           pv == parse_value(args[1])
       IN  IF pv.rc # 0 \/ parse_options(args[1]) # 0
           THEN /\ Finish("WriteValue", p, a, e, Error(DBUS_ERROR_INVALID_ARGS), <<>>, <<>>, FALSE)
                /\ UNCHANGED <<chrs, descs, subscribed>>
           ELSE \E w \in ChrWriteRun(Connection, chrs[p], pv.value, pv.len) :
                  /\ chrs' = [chrs EXCEPT ![p] = w.attr]
                  /\ Finish("WriteValue", p, a, e, IF w.crashed \/ oom THEN NoReply ELSE Return(<<>>),
                            w.sink, w.events, w.crashed)
                  /\ UNCHANGED <<descs, subscribed>>

\* send_notification: chr_write of the three notification bytes.
send_notification_short(conn, chr) ==
    ChrWriteRun(conn, chr, Buf(notification), Len(notification) - 1)

send_notification(conn, chr) ==
    ChrWriteRun(conn, chr, Buf(notification), Len(notification))

\* chr_start_notify: StartNotify on a characteristic; send_notification
\* writes the three notification bytes through chr_write.
ChrStartNotify(p, oom) ==
    /\ Running
    /\ p \in DOMAIN chrs
    /\ IF oom
       THEN /\ Finish("StartNotify", p, ValueArg("none", <<>>), <<>>, Error(DBUS_ERROR_NOT_SUPPORTED), <<>>, <<>>, FALSE)
            /\ UNCHANGED <<chrs, descs, subscribed>>
       ELSE \E w \in send_notification(Connection, chrs[p]) :
              /\ chrs' = [chrs EXCEPT ![p] = w.attr]
              /\ Finish("StartNotify", p, ValueArg("none", <<>>), <<>>, IF w.crashed THEN NoReply ELSE Return(<<>>),
                        w.sink, w.events, w.crashed)
              /\ subscribed' = IF w.crashed THEN subscribed ELSE subscribed \cup {p}
              /\ UNCHANGED descs

\* chr_stop_notify: StopNotify on a characteristic.
ChrStopNotify_unsubscribes(p) ==
    /\ Running
    /\ p \in DOMAIN chrs
    /\ Finish("StopNotify", p, ValueArg("none", <<>>), <<>>, Error(DBUS_ERROR_NOT_SUPPORTED), <<>>, <<>>, FALSE)
    /\ subscribed' = subscribed \ {p}
    /\ UNCHANGED <<chrs, descs>>

ChrStopNotify(p) ==
    /\ Running
    /\ p \in DOMAIN chrs
    /\ Finish("StopNotify", p, ValueArg("none", <<>>), <<>>, Error(DBUS_ERROR_NOT_SUPPORTED), <<>>, <<>>, FALSE)
    /\ UNCHANGED <<chrs, descs, subscribed>>

\* chr_get_value: Get("Value") on a characteristic.
ChrGetValue(p) ==
    /\ Running
    /\ p \in DOMAIN chrs
    /\ Finish("Get", p, ValueArg("none", <<>>), <<>>, Return(chr_read(chrs[p])), <<>>, <<>>, FALSE)
    /\ UNCHANGED <<chrs, descs, subscribed>>

\* chr_set_value: Set("Value", variant) on a characteristic.  The test is
\* !parse_value(...): a parsed array is answered with the error, and an
\* argument that did not parse goes on to chr_write with value and len
\* never assigned.
ChrSetValue(p, a) ==
    /\ Running
    /\ p \in DOMAIN chrs
    /\ LET pv == parse_value(a)
       IN  IF pv.rc = 0
           THEN /\ Finish("Set", p, a, <<>>, Error(CHR_SET_INVALID), <<>>, <<>>, FALSE)
                /\ UNCHANGED <<chrs, descs, subscribed>>
           ELSE \/ \E g \in Garbage :
                     \E w \in ChrWriteRun(NoConnection, chrs[p], g.value, g.len) :
                       /\ chrs' = [chrs EXCEPT ![p] = w.attr]
                       /\ Finish("Set", p, a, <<>>, IF w.crashed THEN NoReply ELSE Return(<<>>),
                                 w.sink, w.events, w.crashed)
                       /\ UNCHANGED <<descs, subscribed>>
                \/ /\ Finish("Set", p, a, <<>>, NoReply, <<>>, <<>>, TRUE)
                   /\ UNCHANGED <<chrs, descs, subscribed>>

\* desc_read_value: ReadValue(options) on a descriptor.
desc_read_value_reply(desc, args, oom) ==
    IF parse_options(args[1]) # 0 THEN Error(DBUS_ERROR_INVALID_ARGS)
    ELSE IF oom THEN Error(DBUS_ERROR_NO_MEMORY)
    ELSE Return(desc_read(desc))

DescReadValue(p, e, oom) ==
    /\ Running
    /\ p \in DOMAIN descs
    /\ Finish("ReadValue", p, ValueArg("none", <<>>), e, desc_read_value_reply(descs[p], <<OptionsArg(e)>>, oom), <<>>, <<>>, FALSE)
    /\ UNCHANGED <<chrs, descs, subscribed>>

\* desc_write_value: WriteValue(value, options) on a descriptor; as in
\* chr_write_value the iterator stays on the value argument.
DescWriteValue(p, a, e, oom) ==
    /\ Running
    /\ p \in DOMAIN descs
    /\ LET args == <<a, OptionsArg(e)>>
           pv == parse_value(args[1])
       IN  IF pv.rc # 0 \/ parse_options(args[1]) # 0
           THEN /\ Finish("WriteValue", p, a, e, Error(DBUS_ERROR_INVALID_ARGS), <<>>, <<>>, FALSE)
                /\ UNCHANGED <<chrs, descs, subscribed>>
           ELSE \E w \in DescWriteRun(Connection, descs[p], pv.value, pv.len) :
                  /\ descs' = [descs EXCEPT ![p] = w.attr]
                  /\ Finish("WriteValue", p, a, e, IF w.crashed \/ oom THEN NoReply ELSE Return(<<>>),
                            w.sink, w.events, w.crashed)
                  /\ UNCHANGED <<chrs, subscribed>>

\* desc_get_value: Get("Value") on a descriptor.
DescGetValue(p) ==
    /\ Running
    /\ p \in DOMAIN descs
    /\ Finish("Get", p, ValueArg("none", <<>>), <<>>, Return(desc_read(descs[p])), <<>>, <<>>, FALSE)
    /\ UNCHANGED <<chrs, descs, subscribed>>

\* desc_set_value: Set("Value", variant) on a descriptor.
DescSetValue(p, a) ==
    /\ Running
    /\ p \in DOMAIN descs
    /\ LET pv == parse_value(a)
       IN  IF pv.rc # 0
           THEN /\ Finish("Set", p, a, <<>>, Error(DESC_SET_INVALID), <<>>, <<>>, FALSE)
                /\ UNCHANGED <<chrs, descs, subscribed>>
           ELSE \E w \in DescWriteRun(NoConnection, descs[p], pv.value, pv.len) :
                  /\ descs' = [descs EXCEPT ![p] = w.attr]
                  /\ Finish("Set", p, a, <<>>, IF w.crashed THEN NoReply ELSE Return(<<>>),
                            w.sink, w.events, w.crashed)
                  /\ UNCHANGED <<chrs, subscribed>>

\* g_main_loop_run dispatches the next request only after the handler of the
\* one before has returned; chr_write and desc_write never run the loop.
Idle_always == TRUE

Idle == writing.at = "none"

\* WriteValue taken statement by statement.  WriteFree: the handler parsed
\* its arguments and chr_write / desc_write ran free(value): the pointer
\* dangles.
WriteFree(p, a) ==
    /\ Running
    /\ Idle
    /\ p \in DOMAIN chrs \cup DOMAIN descs
    /\ parse_value(a).rc = 0
    /\ parse_options(a) = 0
    /\ writing' = [path |-> p, at |-> "freed", arg |-> a]
    /\ UNCHANGED <<pc, svc_id, chr_id, svcs, chrs, descs, services, unregistered, lastReg,
                   nreq, last, subscribed, handed, assigned>>

\* value = util_memdup(value, len): the new buffer with the old length.
WriteStoreValue ==
    /\ writing.at = "freed"
    /\ LET p == writing.path
           pv == parse_value(writing.arg)
       IN  IF p \in DOMAIN chrs
           THEN /\ chrs' = [chrs EXCEPT ![p].value = util_memdup(pv.value, pv.len)]
                /\ descs' = descs
           ELSE /\ descs' = [descs EXCEPT ![p].value = util_memdup(pv.value, pv.len)]
                /\ chrs' = chrs
    /\ writing' = [writing EXCEPT !.at = "value"]
    /\ UNCHANGED <<pc, svc_id, chr_id, svcs, services, unregistered, lastReg,
                   nreq, last, subscribed, handed, assigned>>

\* vlen = len, then callback, the emission and the handler's reply.
WriteStoreLen ==
    /\ writing.at = "value"
    /\ LET p == writing.path
           a == writing.arg
           pv == parse_value(a)
       IN  IF p \in DOMAIN chrs
           THEN \E w \in ChrWriteRun(Connection, chrs[p], pv.value, pv.len) :
                  /\ chrs' = [chrs EXCEPT ![p] = w.attr]
                  /\ Finish("WriteValue", p, a, <<>>, IF w.crashed THEN NoReply ELSE Return(<<>>),
                            w.sink, w.events, w.crashed)
                  /\ UNCHANGED <<descs, subscribed>>
           ELSE \E w \in DescWriteRun(Connection, descs[p], pv.value, pv.len) :
                  /\ descs' = [descs EXCEPT ![p] = w.attr]
                  /\ Finish("WriteValue", p, a, <<>>, IF w.crashed THEN NoReply ELSE Return(<<>>),
                            w.sink, w.events, w.crashed)
                  /\ UNCHANGED <<chrs, subscribed>>

\* chr_get_props / desc_get_props: the loop  for (i = 0; props[i]; i++)
\* appends every flag up to the terminating NULL.
RECURSIVE props_loop(_, _)
props_loop(props, i) ==
    IF i > Len(props) THEN <<>> ELSE <<props[i]>> \o props_loop(props, i + 1)

chr_get_props(chr) == Return(props_loop(chr.props, 1))

desc_get_props_first(desc) == Return(<<desc.props[1]>>)

desc_get_props(desc) == Return(props_loop(desc.props, 1))

\* chr_properties, desc_properties, service_properties: the getters of
\* UUID, Service / Characteristic and Flags.
chr_properties(chr, name) ==
    CASE name = "UUID" -> Return(<<chr.uuid>>)
      [] name = "Service" -> Return(<<chr.service>>)
      [] name = "Flags" -> chr_get_props(chr)

desc_properties(desc, name) ==
    CASE name = "UUID" -> Return(<<desc.uuid>>)
      [] name = "Characteristic" -> Return(<<desc.chr>>)
      [] name = "Flags" -> desc_get_props(desc)

\* service_get_uuid: user_data is the uuid string.
service_get_uuid(user_data) == Return(<<user_data>>)

ChrGetProperty(p, name) ==
    /\ Running
    /\ p \in DOMAIN chrs
    /\ Finish(name, p, ValueArg("none", <<>>), <<>>, chr_properties(chrs[p], name),
              <<>>, <<>>, FALSE)
    /\ UNCHANGED <<chrs, descs, subscribed>>

DescGetProperty(p, name) ==
    /\ Running
    /\ p \in DOMAIN descs
    /\ Finish(name, p, ValueArg("none", <<>>), <<>>, desc_properties(descs[p], name),
              <<>>, <<>>, FALSE)
    /\ UNCHANGED <<chrs, descs, subscribed>>

ServiceGetUuid(p) ==
    /\ Running
    /\ p \in DOMAIN svcs
    /\ Finish("UUID", p, ValueArg("none", <<>>), <<>>, service_get_uuid(svcs[p]),
              <<>>, <<>>, FALSE)
    /\ UNCHANGED <<chrs, descs, subscribed>>

\* The caller of the read that was just answered keeps the reply message.
CallerKeepsReply ==
    /\ Running
    /\ last.op \in {"ReadValue", "Get"}
    /\ last.path \in DOMAIN chrs \cup DOMAIN descs
    /\ last.reply.kind = "return"
    /\ ~handed.held
    /\ handed' = [array |-> reply_array(last.path, last.reply.bytes),
                  at |-> last.reply.bytes, held |-> TRUE]
    /\ UNCHANGED <<pc, svc_id, chr_id, svcs, chrs, descs, services, unregistered, lastReg,
                   nreq, last, subscribed, writing, assigned>>

\* service_get_primary: the Primary property getter appends
\* dbus_bool_t primary = TRUE.
service_get_primary_false(user_data) == Return(<<0>>)

service_get_primary(user_data) == Return(<<1>>)

\* Get of the Primary property of a registered service.
ServiceGetPrimary(p) ==
    /\ Running
    /\ p \in DOMAIN svcs
    /\ Finish("GetPrimary", p, ValueArg("none", <<>>), <<>>, service_get_primary(svcs[p]),
              <<>>, <<>>, FALSE)
    /\ UNCHANGED <<chrs, descs, subscribed>>

(****************************** specification ******************************)
SvcPaths == DOMAIN svcs
ChrPaths == DOMAIN chrs
DescPaths == DOMAIN descs

\* main(): create_services_one, then the main loop serving MaxReq requests.
Next ==
    \/ CreateRegisterService
    \/ \E k \in Calls : CreateRegisterCharacteristic(k)
    \/ \E p \in SvcPaths : nreq < MaxReq /\ ServiceGetPrimary(p)
    \/ \E p \in ChrPaths, r \in ReadRequests :
         nreq < MaxReq /\ ChrReadValue(p, r.opts, r.oom)
    \/ \E p \in ChrPaths, a \in ByteArrays, r \in WriteRequests :
         nreq < MaxReq /\ ChrWriteValue(p, a, r.opts, r.oom)
    \/ \E p \in ChrPaths, oom \in BOOLEAN : nreq < MaxReq /\ ChrStartNotify(p, oom)
    \/ \E p \in ChrPaths : nreq < MaxReq /\ ChrStopNotify(p)
    \/ \E p \in ChrPaths : nreq < MaxReq /\ ChrGetValue(p)
    \/ \E p \in ChrPaths, a \in ByteArrays \cup {NonArray} :
         nreq < MaxReq /\ ChrSetValue(p, a)
    \/ \E p \in DescPaths, r \in ReadRequests :
         nreq < MaxReq /\ DescReadValue(p, r.opts, r.oom)
    \/ \E p \in DescPaths, a \in ByteArrays, r \in WriteRequests :
         nreq < MaxReq /\ DescWriteValue(p, a, r.opts, r.oom)
    \/ \E p \in DescPaths : nreq < MaxReq /\ DescGetValue(p)
    \/ \E p \in DescPaths, a \in ByteArrays \cup {NonArray} :
         nreq < MaxReq /\ DescSetValue(p, a)

Spec == Init /\ [][Next]_vars

\* The main loop serving one request more, with StartNotify and WriteValue on
\* the characteristics only: long enough for a write between two StartNotify.
NextNotify ==
    \/ CreateRegisterService
    \/ \E k \in Calls : CreateRegisterCharacteristic(k)
    \/ \E p \in ChrPaths, oom \in BOOLEAN : nreq < MaxReq + 1 /\ ChrStartNotify(p, oom)
    \/ \E p \in ChrPaths, a \in ByteArrays :
         nreq < MaxReq + 1 /\ ChrWriteValue(p, a, <<>>, FALSE)
    \/ \E p \in ChrPaths : nreq < MaxReq + 1 /\ ChrStopNotify(p)

SpecNotify == Init /\ [][NextNotify]_vars

\* One ReadValue carrying any option dictionary, on any attribute.
NextOptions ==
    \/ CreateRegisterService
    \/ \E k \in Calls : CreateRegisterCharacteristic(k)
    \/ \E p \in ChrPaths, e \in AllOptionBags : nreq < 1 /\ ChrReadValue(p, e, FALSE)
    \/ \E p \in DescPaths, e \in AllOptionBags : nreq < 1 /\ DescReadValue(p, e, FALSE)

SpecOptions == Init /\ [][NextOptions]_vars

\* Reads whose caller keeps the reply, followed by writes.
NextSnapshot ==
    \/ CreateRegisterService
    \/ \E k \in Calls : CreateRegisterCharacteristic(k)
    \/ \E p \in ChrPaths : nreq < MaxReq /\ ChrReadValue(p, <<>>, FALSE)
    \/ \E p \in ChrPaths : nreq < MaxReq /\ ChrGetValue(p)
    \/ \E p \in DescPaths : nreq < MaxReq /\ DescReadValue(p, <<>>, FALSE)
    \/ \E p \in DescPaths : nreq < MaxReq /\ DescGetValue(p)
    \/ CallerKeepsReply
    \/ \E p \in ChrPaths, a \in ByteArrays :
         nreq < MaxReq /\ ChrWriteValue(p, a, <<>>, FALSE)
    \/ \E p \in ChrPaths : nreq < MaxReq /\ ChrStartNotify(p, FALSE)
    \/ \E p \in DescPaths, a \in ByteArrays :
         nreq < MaxReq /\ DescWriteValue(p, a, <<>>, FALSE)
    \/ \E p \in DescPaths, a \in ByteArrays : nreq < MaxReq /\ DescSetValue(p, a)

SpecSnapshot == Init /\ [][NextSnapshot]_vars

\* WriteValue in its statements, with reads and StartNotify dispatched
\* whenever the main loop is free to dispatch.
NextSteps ==
    \/ CreateRegisterService
    \/ \E k \in Calls : CreateRegisterCharacteristic(k)
    \/ \E p \in ChrPaths \cup DescPaths, a \in ByteArrays : nreq < MaxReq /\ WriteFree(p, a)
    \/ WriteStoreValue
    \/ WriteStoreLen
    \/ \E p \in ChrPaths : Idle /\ nreq < MaxReq /\ ChrReadValue(p, <<>>, FALSE)
    \/ \E p \in DescPaths : Idle /\ nreq < MaxReq /\ DescReadValue(p, <<>>, FALSE)
    \/ \E p \in ChrPaths : Idle /\ nreq < MaxReq /\ ChrStartNotify(p, FALSE)

SpecSteps == Init /\ [][NextSteps]_vars

\* Every property getter and ReadValue, among WriteValue requests.
NextAccessors ==
    \/ CreateRegisterService
    \/ \E k \in Calls : CreateRegisterCharacteristic(k)
    \/ \E p \in SvcPaths : nreq < MaxReq /\ ServiceGetPrimary(p)
    \/ \E p \in SvcPaths : nreq < MaxReq /\ ServiceGetUuid(p)
    \/ \E p \in ChrPaths, name \in {"UUID", "Service", "Flags"} :
         nreq < MaxReq /\ ChrGetProperty(p, name)
    \/ \E p \in DescPaths, name \in {"UUID", "Characteristic", "Flags"} :
         nreq < MaxReq /\ DescGetProperty(p, name)
    \/ \E p \in ChrPaths : nreq < MaxReq /\ ChrGetValue(p)
    \/ \E p \in DescPaths : nreq < MaxReq /\ DescGetValue(p)
    \/ \E p \in ChrPaths, r \in ReadRequests :
         nreq < MaxReq /\ ChrReadValue(p, r.opts, r.oom)
    \/ \E p \in DescPaths, r \in ReadRequests :
         nreq < MaxReq /\ DescReadValue(p, r.opts, r.oom)
    \/ \E p \in ChrPaths, a \in ByteArrays :
         nreq < MaxReq /\ ChrWriteValue(p, a, <<>>, FALSE)
    \/ \E p \in DescPaths, a \in ByteArrays :
         nreq < MaxReq /\ DescWriteValue(p, a, <<>>, FALSE)

SpecAccessors == Init /\ [][NextAccessors]_vars

\* The registration routines called in any order, register_characteristic
\* with the path of a service that may or may not be registered.
ServicePathArgs == {ServicePath(1), ServicePath(2)}

NextRegister ==
    \/ \E ok \in BOOLEAN : RegisterService(ok)
    \/ \E k \in Calls, service_path \in ServicePathArgs, chrOk \in BOOLEAN, descOk \in BOOLEAN :
         RegisterCharacteristic(k, service_path, chrOk, descOk)

SpecRegister == Init /\ [][NextRegister]_vars

(******************************** properties *******************************)
Registered(p) == p \in DOMAIN chrs \cup DOMAIN descs
Attr(p) == IF p \in DOMAIN chrs THEN chrs[p] ELSE descs[p]
ReadOf(p) == IF p \in DOMAIN chrs THEN chr_read(chrs[p]) ELSE desc_read(descs[p])
WriteOp == last.op \in {"WriteValue", "Set"}
\* Every callback invocation of the last request was given a NUL-terminated
\* buffer.
SinkDefined == \A i \in 1..Len(last.sink) : callback_defined(last.sink[i].data)
\* create_services_one ran to its end: the service, its three characteristics
\* and the descriptor are registered.
Complete == services # <<>>
NotFound == "NotFound"

\* C1: round trip.  In the state a successful WriteValue(v) on a
\* characteristic leaves behind, a ReadValue on that characteristic is
\* answered with exactly the bytes v.
C1_RoundTrip ==
    (/\ last.op = "WriteValue"
     /\ last.path \in DOMAIN chrs
     /\ last.reply.kind = "return")
    => chr_read_value_reply(chrs[last.path], <<OptionsArg(<<>>)>>, FALSE)
         = Return(last.arg.bytes)

C1_Witness ==
    /\ Complete
    /\ SinkDefined
    /\ last.op = "WriteValue"
    /\ last.path \in DOMAIN chrs
    /\ last.reply.kind = "return"
    /\ Len(last.arg.bytes) = MaxLen
    /\ pc = "running"

\* C2: last write wins, wholesale.  After a successful byte-array write to a
\* characteristic or descriptor (WriteValue, or Set on a descriptor), however
\* many writes preceded it, a read yields exactly the bytes of that write, the
\* stored length is their number and the stored buffer holds nothing else.
C2_LastWriteWins ==
    (ByteWrite(last.op, last.arg, last.reply) /\ Registered(last.path))
    => /\ ReadOf(last.path) = last.arg.bytes
       /\ Attr(last.path).vlen = Len(last.arg.bytes)
       /\ Attr(last.path).value.buf = last.arg.bytes

\* A shorter write that directly followed a longer one to the same attribute.
C2_Witness ==
    /\ Complete
    /\ SinkDefined
    /\ last.shrunk
    /\ Len(last.arg.bytes) > 0
    /\ last.path \in DOMAIN descs
    /\ pc = "running"

\* C3 (as claimed): a write of a zero-length byte array to a characteristic
\* or descriptor is not rejected, the server survives it, the stored length
\* is 0 and a read yields the empty array (stated on the complete tree).
C3_ZeroLengthWriteSucceeds ==
    (/\ Complete
     /\ WriteOp
     /\ last.arg = ValueArg("ay", <<>>)
     /\ (last.op = "Set" => last.path \in DOMAIN descs)
     /\ Registered(last.path))
    => /\ pc # "crashed"
       /\ last.reply.kind # "error"
       /\ Attr(last.path).vlen = 0
       /\ ReadOf(last.path) = <<>>

\* C4: all-or-nothing.  When the descriptor's registration fails,
\* register_characteristic returns failure and the registered attributes are
\* those registered before the call: neither the characteristic nor the
\* descriptor of that call is among them.
C4_AllOrNothing ==
    lastReg.failed = "desc"
    => /\ ~lastReg.ok
       /\ lastReg.after = lastReg.before
       /\ \A p \in DOMAIN chrs \cup DOMAIN descs : p \in lastReg.before

C4_Witness ==
    /\ lastReg.failed = "desc"
    /\ lastReg.call = 1
    /\ pc = "running"

\* C5 (as claimed): no dangling owner.  Every registered descriptor's
\* characteristic is registered and every registered characteristic's service
\* path is a registered service.
C5_NoDanglingOwner ==
    /\ \A d \in DOMAIN descs : descs[d].chr \in DOMAIN chrs
    /\ \A c \in DOMAIN chrs : chrs[c].service \in DOMAIN svcs

\* C6 (as claimed): once a service has been unregistered, no characteristic
\* of it and no descriptor of those is registered, and a read addressed to
\* such a characteristic is answered NotFound.
C6_UnregisterRemovesUnit ==
    \A s \in unregistered :
       /\ s \notin DOMAIN svcs
       /\ \A c \in DOMAIN chrs : chrs[c].service # s
       /\ \A d \in DOMAIN descs : SubSeq(descs[d].chr, 1, 1) # s
       /\ (last.op \in {"ReadValue", "Get"} /\ SubSeq(last.path, 1, 1) = s)
            => last.reply = Error(NotFound)

\* C7 (as claimed): a WriteValue or Set("Value") on an attribute whose flags
\* lack "write" is answered with an error and runs no write (no store, no
\* sink call).  Stated on the complete tree, for handlers that returned
\* and whose callback invocations were well defined.
C7_WriteNeedsWriteFlag ==
    (/\ Complete /\ pc = "running" /\ SinkDefined
     /\ WriteOp /\ Registered(last.path)
     /\ ~HasFlag(Attr(last.path).props, "write"))
    => /\ last.reply.kind = "error"
       /\ last.sink = <<>>

\* C8 (as claimed): a ReadValue on a characteristic whose flags are exactly
\* {write} is answered with an error and carries no value.
C8_ReadNeedsReadFlag ==
    (/\ Complete /\ pc = "running"
     /\ last.op = "ReadValue"
     /\ last.path \in DOMAIN chrs
     /\ chrs[last.path].props = hrs_hr_ctrl_pt_props)
    => last.reply.kind = "error"

\* C9 (as claimed): StartNotify on a characteristic whose flags lack "notify"
\* is answered NotSupported, emits nothing and runs no write.
C9_StartNotifyNeedsNotifyFlag ==
    (/\ Complete /\ pc = "running"
     /\ last.op = "StartNotify"
     /\ last.path \in DOMAIN chrs
     /\ ~HasFlag(chrs[last.path].props, "notify"))
    => /\ last.reply = Error(DBUS_ERROR_NOT_SUPPORTED)
       /\ last.events = <<>>
       /\ last.sink = <<>>

\* C10: a StartNotify that is answered with success on a characteristic with
\* the "notify" flag has, by the time the reply is returned, called the
\* propertyChanged emission exactly once, for "Value" on that
\* characteristic's path and interface, and for no other attribute.
C10_StartNotifyEmitsOnce ==
    (/\ last.op = "StartNotify"
     /\ last.path \in DOMAIN chrs
     /\ HasFlag(chrs[last.path].props, "notify")
     /\ last.reply.kind = "return")
    => last.events = <<Emission(Connection, last.path, GATT_CHR_IFACE)>>

C10_Witness ==
    /\ Complete
    /\ last.op = "StartNotify"
    /\ last.path \in DOMAIN chrs
    /\ HasFlag(chrs[last.path].props, "notify")
    /\ last.reply.kind = "return"
    /\ pc = "running"


\* C11: a StartNotify answered with success on a characteristic that is
\* already subscribed is a no-op: the subscription and the characteristic's
\* value and length after it equal those before it.
C11_SecondStartNotifyNoOp ==
    [][(/\ Complete
        /\ nreq' = nreq + 1
        /\ last'.op = "StartNotify"
        /\ last'.reply.kind = "return"
        /\ last'.path \in subscribed)
       => /\ subscribed' = subscribed
          /\ chrs'[last'.path].value = chrs[last'.path].value
          /\ chrs'[last'.path].vlen = chrs[last'.path].vlen]_vars


\* C12: StopNotify is always answered with the NotSupported error, whatever
\* the flags and whether or not StartNotify succeeded before; it changes no
\* value, no length and no subscription, calls no sink and emits nothing.
C12_StopNotifyFailsNoChange ==
    [][(nreq' = nreq + 1 /\ last'.op = "StopNotify")
       => /\ last'.reply = Error(DBUS_ERROR_NOT_SUPPORTED)
          /\ chrs' = chrs
          /\ descs' = descs
          /\ subscribed' = subscribed
          /\ Cardinality(subscribed') >= 0
          /\ last'.sink = <<>>
          /\ last'.events = <<>>]_vars
\* StopNotify was served on a characteristic on which StartNotify had
\* succeeded before.
C12_Witness ==
    /\ Complete
    /\ last.op = "StopNotify"
    /\ last.path \in subscribed


\* The g_dbus_emit_property_changed calls of the last request that were given
\* a connection to send on.
Delivered == SelectSeq(last.events, LAMBDA e : e.conn # NoConnection)

\* C13: a write answered with success on a characteristic on which no
\* StartNotify has succeeded delivers no value-changed event; events are
\* delivered only for subscribed characteristics.
C13_NoEventWithoutSubscriber ==
    (/\ Complete
     /\ pc = "running"
     /\ WriteOp
     /\ last.path \in DOMAIN chrs
     /\ last.reply.kind = "return"
     /\ last.path \notin subscribed
     /\ SinkDefined)
    => Delivered = <<>>


InvalidArguments == {DBUS_ERROR_INVALID_ARGS, CHR_SET_INVALID, DESC_SET_INVALID}

\* C14: on every write entry point a payload that is not an array of bytes
\* is answered with an InvalidArguments error; no value or length changes,
\* the sink is not called and nothing is emitted.
C14_NonArrayPayloadRejected ==
    [][(/\ Complete
        /\ nreq' = nreq + 1
        /\ last'.op \in {"WriteValue", "Set"}
        /\ last'.arg.type # "ay")
       => /\ last'.reply.kind = "error"
          /\ last'.reply.name \in InvalidArguments
          /\ chrs' = chrs
          /\ descs' = descs
          /\ last'.sink = <<>>
          /\ last'.events = <<>>]_vars


\* The option entries whose value is not an object path, under a key that is
\* "device" exactly / "device" in any letter case.
BadDevice(opts) ==
    {i \in 1..Len(opts) : opts[i].key = "device" /\ opts[i].vtype # "o"}
FoldCase == [k \in OptionKeys |-> IF k = "Device" THEN "device" ELSE k]
BadDeviceAnyCase(opts) ==
    {i \in 1..Len(opts) : FoldCase[opts[i].key] = "device" /\ opts[i].vtype # "o"}

\* C15: a ReadValue fails with InvalidArguments exactly when its options hold
\* an entry with key "device" whose value is not an object path; entries
\* under any other key never make it fail, whatever their value's type.
C15_OnlyDeviceKeyCanFail ==
    (last.op = "ReadValue" /\ Registered(last.path))
    => /\ BadDevice(last.opts) # {} => last.reply = Error(DBUS_ERROR_INVALID_ARGS)
       /\ BadDevice(last.opts) = {} => last.reply = Return(ReadOf(last.path))
\* C15, amended: the key is compared ignoring letter case.  A ReadValue fails
\* with InvalidArguments exactly when its options hold an entry whose key is
\* "device" in any letter case and whose value is not an object path; all
\* other entries never make it fail.
C15_DeviceKeyAnyCase ==
    (last.op = "ReadValue" /\ Registered(last.path))
    => /\ BadDeviceAnyCase(last.opts) # {} => last.reply = Error(DBUS_ERROR_INVALID_ARGS)
       /\ BadDeviceAnyCase(last.opts) = {} => last.reply = Return(ReadOf(last.path))
\* A ReadValue failed on an entry with key "Device" and a string value that
\* came after an entry under another key.
C15_Witness ==
    /\ last.op = "ReadValue"
    /\ Len(last.opts) = 2
    /\ last.opts[1].key = "mtu"
    /\ last.opts[2] = Entry("Device", "s")
    /\ last.reply = Error(DBUS_ERROR_INVALID_ARGS)


IfaceOf(p) == IF p \in DOMAIN chrs THEN GATT_CHR_IFACE ELSE GATT_DESCRIPTOR_IFACE

\* C16: every write of a byte array answered with success, through WriteValue
\* or through the property Set, calls the sink exactly once with the stored
\* bytes and length and sends exactly one PropertiesChanged("Value") for the
\* written attribute.
C16_WriteSinkAndEventOnce ==
    (/\ Complete
     /\ pc = "running"
     /\ WriteOp
     /\ last.arg.type = "ay"
     /\ last.reply.kind = "return"
     /\ SinkDefined)
    => /\ last.sink = <<SinkCall(Attr(last.path).value, Attr(last.path).vlen)>>
       /\ Delivered = <<Emission(Connection, last.path, IfaceOf(last.path))>>


Range(f) == {f[i] : i \in DOMAIN f}

\* The number at the end of an object path, and the paths numbered by the
\* counter of register_service / of register_characteristic, in order.
Num(path) == path[Len(path)]
ServiceNumbered == SelectSeq(assigned, LAMBDA q : Len(q) = 1)
AttrNumbered == SelectSeq(assigned, LAMBDA q : Len(q) > 1)
Increasing(paths) ==
    \A i \in 1..Len(paths), j \in 1..Len(paths) : i < j => Num(paths[i]) < Num(paths[j])

\* C17: in any sequence of registrations, failed and rolled-back ones
\* included, no object path is built twice, and the number in each new path
\* is greater than every number taken before from the same counter.
C17_PathsNeverReused ==
    /\ \A i \in 1..Len(assigned), j \in 1..Len(assigned) : i # j => assigned[i] # assigned[j]
    /\ Increasing(ServiceNumbered)
    /\ Increasing(AttrNumbered)
\* A path was built for a registration that failed or was rolled back, and a
\* later registration succeeded under a new path.
C17_Witness ==
    /\ Len(assigned) >= 2
    /\ \E i \in 1..(Len(assigned) - 1) : assigned[i] \notin Attributes(svcs, chrs, descs)
    /\ assigned[Len(assigned)] \in Attributes(svcs, chrs, descs)


ChrNumbered == SelectSeq(assigned, LAMBDA q : Len(q) = 2)
DescNumbered == SelectSeq(assigned, LAMBDA q : Len(q) = 3)
Consecutive(paths) ==
    \A i \in 1..(Len(paths) - 1) : Num(paths[i + 1]) = Num(paths[i]) + 1

\* C18: services, characteristics and descriptors each have their own
\* counter: the numbers of successively registered characteristics are
\* consecutive however many descriptors were registered in between (and so
\* are those of services and of descriptors).
C18_OwnCounterPerCategory ==
    /\ Consecutive(ServiceNumbered)
    /\ Consecutive(ChrNumbered)
    /\ Consecutive(DescNumbered)
\* C18, amended: numbers increase within each category, but characteristics
\* and descriptors draw from one shared counter and services from their own:
\* the i-th path built for a characteristic or a descriptor carries the
\* number i, and the i-th service path carries the number i.
C18_SharedCounter ==
    /\ Increasing(ChrNumbered)
    /\ Increasing(DescNumbered)
    /\ \A i \in 1..Len(ServiceNumbered) : Num(ServiceNumbered[i]) = i
    /\ \A i \in 1..Len(AttrNumbered) : Num(AttrNumbered[i]) = i
\* Two characteristics were registered one after the other with a descriptor
\* in between, and the second one's number is two above the first's.
C18_Witness ==
    \E i \in 1..(Len(ChrNumbered) - 1) :
        /\ Num(ChrNumbered[i + 1]) = Num(ChrNumbered[i]) + 2
        /\ ChrNumbered[i] \in DOMAIN chrs
        /\ ChrNumbered[i + 1] \in DOMAIN chrs
        /\ DescNumbered # <<>>

\* register_service yielded no path: create_services_one returned right
\* after building the first object path.
ServiceRefused == pc = "running" /\ Len(assigned) = 1

\* C19: register_service either registers a service under a new path, whose
\* Primary property reads TRUE on every later Get, or fails and leaves no
\* service registered under the path it built.
C19_ServicePrimaryOrNothing ==
    /\ \A p \in DOMAIN svcs : p \in Range(ServiceNumbered)
    /\ (last.op = "GetPrimary" /\ nreq > 0)
       => (last.path \in Range(ServiceNumbered) /\ last.reply = Return(<<1>>))
    /\ ServiceRefused
       => (svcs = EmptyFn /\ services = <<>> /\ assigned[1] \notin Attributes(svcs, chrs, descs))
\* Primary was read as the second request on the registered service.
C19_Witness ==
    /\ Complete
    /\ nreq = 2
    /\ last.op = "GetPrimary"
    /\ last.path \in DOMAIN svcs
    /\ last.reply.kind = "return"

BufLen(v) == IF v.null THEN 0 ELSE Len(v.buf)

\* C21: while the server runs, the stored length of every characteristic
\* and descriptor equals the number of bytes in its stored buffer, after
\* registration, after every write through any entry point and after
\* StartNotify.
C21_LengthMatchesBuffer ==
    pc # "crashed"
    => /\ \A p \in DOMAIN chrs : chrs[p].vlen = BufLen(chrs[p].value)
       /\ \A p \in DOMAIN descs : descs[p].vlen = BufLen(descs[p].value)


\* The bytes the caller finds in the reply it holds.
Seen ==
    IF handed.array.copy THEN handed.array.bytes ELSE ReadOf(handed.array.path)

C23_OneMutationInFlight ==
    [][writing.at # "none"
       => /\ DOMAIN chrs' = DOMAIN chrs /\ DOMAIN descs' = DOMAIN descs /\ svcs' = svcs
          /\ \/ /\ writing.at = "freed"
                /\ writing' = [writing EXCEPT !.at = "value"]
                /\ nreq' = nreq /\ last' = last
             \/ /\ writing.at = "value"
                /\ writing' = NoWrite
                /\ nreq' = nreq + 1
                /\ last'.op = "WriteValue" /\ last'.path = writing.path]_vars
\* A write stands between its two stores, the new buffer with the old
\* length, while the main loop still has requests to serve.
C23_Witness ==
    /\ Complete
    /\ writing.at = "value"
    /\ nreq < MaxReq
    /\ Attr(writing.path).vlen # BufLen(Attr(writing.path).value)


\* C24: a WriteValue whose payload is a byte array but whose options do not
\* parse is answered InvalidArgs with every value and length unchanged, no
\* sink call and no emission; and no request answered with an error has
\* changed any attribute.
C24_ValidationPrecedesMutation ==
    [][(Complete /\ nreq' = nreq + 1)
       => /\ (/\ last'.op = "WriteValue"
              /\ last'.arg.type = "ay"
              /\ parse_options(OptionsArg(last'.opts)) # 0)
             => /\ last'.reply = Error(DBUS_ERROR_INVALID_ARGS)
                /\ chrs' = chrs /\ descs' = descs
                /\ last'.sink = <<>> /\ last'.events = <<>>
          /\ last'.reply.kind = "error" => (chrs' = chrs /\ descs' = descs)]_vars


\* C25: every ReadValue, WriteValue, StartNotify and StopNotify whose
\* callback invocations were well defined ends with a success reply or an
\* error reply carrying a name, and a request that got no success reply has
\* changed no value and no length.
C25_NoErrorDropped ==
    [][(/\ Complete
        /\ nreq' = nreq + 1
        /\ last'.op \in {"ReadValue", "WriteValue", "StartNotify", "StopNotify"}
        /\ SinkDefined')
       => /\ \/ last'.reply.kind = "return"
             \/ last'.reply.kind = "error" /\ last'.reply.name # ""
          /\ last'.reply.kind # "return" => (chrs' = chrs /\ descs' = descs)]_vars


Accessors == {"UUID", "Service", "Characteristic", "Flags", "GetPrimary", "Get", "ReadValue"}
\* The flags create_services_one hands to the registration of the attribute
\* with the given uuid.
FlagsGiven(uuid) ==
    CASE uuid = HR_MSRMT_CHR_UUID -> hrs_hr_msrmt_props
      [] uuid = BODY_SENSOR_LOC_CHR_UUID -> hrs_body_sensor_loc_props
      [] uuid = HR_CTRL_PT_CHR_UUID -> hrs_hr_ctrl_pt_props
      [] uuid = CLIENT_CHR_CONFIG_DESCRIPTOR_UUID -> ccc_desc_props

\* C26: the getters of UUID, Service / Characteristic, Flags, Primary and
\* Value and the ReadValue method leave every registered attribute (value,
\* length, flags) and the registration as they were, call no sink and emit
\* nothing; the Flags getter returns the flags given at registration, in
\* their order.
C26_AccessorsArePure ==
    [][(nreq' = nreq + 1 /\ last'.op \in Accessors)
       => /\ chrs' = chrs /\ descs' = descs /\ svcs' = svcs /\ services' = services
          /\ last'.sink = <<>> /\ last'.events = <<>>
          /\ last'.op = "Flags"
             => last'.reply = Return(FlagsGiven(Attr(last'.path).uuid))]_vars
\* The Flags of the descriptor (two flags) were read after a write.
C26_Witness ==
    /\ Complete
    /\ nreq = 2
    /\ last.op = "Flags"
    /\ last.path \in DOMAIN descs
    /\ Len(last.reply.bytes) = 2


C28_StoreThenSinkThenEmit ==
    /\ last.events # <<>> => last.sink # <<>>
    /\ last.sink # <<>>
       => /\ last.sink = <<SinkCall(Attr(last.path).value, Attr(last.path).vlen)>>
          /\ Len(last.events) <= 1
          /\ last.arg.type = "ay"
             => (ReadOf(last.path) = last.arg.bytes
                 /\ Attr(last.path).vlen = Len(last.arg.bytes))
          /\ last.op = "StartNotify" => ReadOf(last.path) = notification
          /\ pc = "crashed" => last.events = <<>>
\* The sink did not return from a write of a non-empty value that differs
\* from the initial one: the attribute holds the new value.
C28_Witness ==
    /\ Complete
    /\ pc = "crashed"
    /\ WriteOp
    /\ last.path \in DOMAIN chrs
    /\ last.arg.bytes \notin {<<>>, Level}
    /\ ReadOf(last.path) = last.arg.bytes


\* C29: after a StartNotify answered with success the characteristic's value
\* is the three bytes 0x33 0x34 0x35 with length 3, whatever it held before,
\* and the sink was called with those bytes and that length.
C29_StartNotifyWrites ==
    (last.op = "StartNotify" /\ last.reply.kind = "return")
    => /\ chrs[last.path].value = Buf(<<51, 52, 53>>)
       /\ chrs[last.path].vlen = 3
       /\ last.sink = <<SinkCall(Buf(<<51, 52, 53>>), 3)>>
\* StartNotify was answered with success as the second request, on the
\* complete tree.
C29_Witness ==
    /\ Complete
    /\ nreq = 2
    /\ last.op = "StartNotify"
    /\ last.reply.kind = "return"
    /\ ReadOf(last.path) = notification


\* create_services_one has returned.
Returned == pc \in {"running", "crashed"}
\* The service and every register_characteristic call of create_services_one
\* succeeded.
AllRegistered == lastReg.call = 3 /\ lastReg.ok

\* C30: once create_services_one has returned, the services list holds the
\* service path exactly when the service, the three characteristics and the
\* descriptor were registered; when the service or a characteristic (or the
\* descriptor) failed, no service interface is registered and the list is as
\* it was, empty.
C30_RecordedIffAllRegistered ==
    Returned
    => /\ services = (IF AllRegistered THEN <<ServicePath(1)>> ELSE <<>>)
       /\ AllRegistered
          => /\ ServicePath(1) \in DOMAIN svcs
             /\ Cardinality(DOMAIN chrs) = 3
             /\ Cardinality(DOMAIN descs) = 1
       /\ ~AllRegistered => DOMAIN svcs = {}
\* The third characteristic failed after the service, two characteristics
\* and the descriptor were registered.
C30_Witness ==
    /\ Returned
    /\ lastReg.call = 3
    /\ ~lastReg.ok
    /\ Cardinality(DOMAIN chrs) = 2
    /\ Cardinality(DOMAIN descs) = 1
    /\ ServicePath(1) \in unregistered
    /\ services = <<>>


\* The bytes an attribute is registered with: the characteristics of
\* create_services_one get &level, sizeof(level); a descriptor gets none.
initialValue(p) == IF p \in DOMAIN chrs THEN Level ELSE <<>>
\* No write, Set or StartNotify has been addressed to p: no request was
\* served yet, or the only one served was another operation or went to
\* another attribute.
Untouched(p) ==
    \/ nreq = 0
    \/ /\ nreq = 1
       /\ ~(last.path = p /\ last.op \in {"WriteValue", "Set", "StartNotify"})

\* C31: a ReadValue or Get("Value") that is answered with a value, on an
\* attribute no write and no StartNotify was addressed to since its
\* registration, returns the bytes given at registration for a
\* characteristic and no bytes for a descriptor.
C31_ReadsInitialValue ==
    [][(/\ nreq' = nreq + 1
        /\ last'.op \in {"ReadValue", "Get"}
        /\ last'.reply.kind = "return"
        /\ Untouched(last'.path))
       => last'.reply.bytes = initialValue(last'.path)]_vars
\* The descriptor was read as the second request and gave no bytes, after a
\* first request that changed the value of a characteristic.
C31_Witness ==
    /\ Complete
    /\ nreq = 2
    /\ last.op = "ReadValue"
    /\ last.reply.kind = "return"
    /\ last.path \in DOMAIN descs
    /\ last.reply.bytes = <<>>
    /\ \E q \in DOMAIN chrs : ReadOf(q) # Level


\* C32: a register_characteristic call whose characteristic registration
\* fails returns failure, builds no descriptor path (one path and one number
\* are used, the characteristic's), registers neither the characteristic nor
\* a descriptor, and leaves every registered characteristic and descriptor
\* with all its fields, the value included, as it was.
C32_ChrFailureLeavesNothing ==
    [][(chr_id' # chr_id /\ lastReg'.failed = "chr")
       => /\ ~lastReg'.ok
          /\ chr_id' = chr_id + 1
          /\ Len(assigned') = Len(assigned) + 1
          /\ Len(assigned'[Len(assigned')]) = 2
          /\ assigned'[Len(assigned')] \notin DOMAIN chrs' \cup DOMAIN descs'
          /\ chrs' = chrs
          /\ descs' = descs]_vars
\* The call for the characteristic that has a descriptor failed at the
\* characteristic while a characteristic and its descriptor were registered.
C32_Witness ==
    /\ lastReg.call = 1
    /\ lastReg.failed = "chr"
    /\ DOMAIN chrs # {}
    /\ DOMAIN descs # {}
    /\ Len(assigned) = 3
    /\ ~Registered(assigned[3])

====
